---------------------------- MODULE Spec2Model ----------------------------
(***************************************************************************)
(* A model of salesforce_client/client.py: the pagination Cursor, the      *)
(* BulkJob command object and the SFDC facade, with the HTTP server as the *)
(* environment.  Every call the code makes to requests.get/post/patch/put/ *)
(* delete is appended to `log`; the outcome of the last call made by the   *)
(* user (return value or exception) is kept in `ret`.                      *)
(*                                                                         *)
(* Encoding of Python values:                                              *)
(*   None            -1  where the field otherwise holds an integer        *)
(*   NoneObj         where the field otherwise holds a decoded JSON object *)
(*   NoneStr         where the field otherwise holds a string; it is also  *)
(*                   what str.format renders None as                       *)
(***************************************************************************)
EXTENDS Integers, Sequences, FiniteSets, TLC

VARIABLES
    pages,      \* server: the query result, the size of each of its pages
    cursor,     \* Cursor object: _next_url, results, _len
    gen,        \* the generator returned by Cursor.iterator: its position
    yielded,    \* the records the generator has yielded so far
    sfdc,       \* SFDC facade: _block_sfdc_writes, _instance_url, _access_token
    job,        \* BulkJob object (NoneObj: none constructed): its fields
    log,        \* every call made to the requests library, in order
    ret,        \* outcome of the user's last call
    frames      \* per thread: the call it is in, its position and its locals

vars == <<pages, cursor, gen, yielded, sfdc, job, log, ret, frames>>

\* the threads of the program, and a thread that is in no call
Threads == {1, 2}
NoFrame == [pc |-> "idle"]
NoFrames == [t \in Threads |-> NoFrame]

-----------------------------------------------------------------------------
(* Bounds of the model *)

MaxPages == 3       \* a query result has 1..MaxPages pages
MaxRecs == 2        \* a page carries 0..MaxRecs records
MaxGets == 4        \* the cursor specification stops after MaxGets requests

-----------------------------------------------------------------------------
(* Python values *)

None == -1
NoneObj == [none |-> TRUE]
NoneStr == "None"

\* the status codes the server answers with: a success, and the least
\* status the code takes for a failure
StatusCodes == {200, 400}

\* r.status_code >= 400
IsError(status) == status >= 400

\* the outcome of a call: op returned val, or raised exc with message msg;
\* `arg` is the argument of the call where the model draws one (create_job's
\* operation)
Returned(op, val) ==
    [op |-> op, arg |-> NoneStr, exc |-> "", msg |-> "", val |-> val]
RaisedWith(op, exc, msg) ==
    [op |-> op, arg |-> NoneStr, exc |-> exc, msg |-> msg, val |-> None]
Raised(op, exc)   == RaisedWith(op, exc, "")
WithArg(r, arg)   == [r EXCEPT !.arg = arg]

\* the bodies the server sends with a status >= 400: a list of errors from
\* the REST endpoints, one object from the job endpoints, text from the
\* batch endpoint, one object from the login endpoint
RestErrorJson ==
    <<[message |-> "Session expired", errorCode |-> "INVALID_SESSION_ID"],
      [message |-> "Malformed query", errorCode |-> "MALFORMED_QUERY"]>>
BulkErrorJson ==
    [exceptionCode |-> "InvalidJob", exceptionMessage |-> "No such job"]
BatchErrorText == "<error>InvalidBatch</error>"
LoginErrorJson ==
    [error |-> "invalid_grant", error_description |-> "authentication failure"]

\* `r.json()[0]['message']`
RestMessage(json) == json[1].message

\* the job endpoints' error read the way the REST endpoints' error is
BulkMessage_Unified(json) == json.exceptionMessage

\* `code + ' : ' + message`
BulkMessage(json) == json.exceptionCode \o " : " \o json.exceptionMessage

\* outcome r is `op` having returned val / having raised exc
HasReturned(r, op, val) == r.op = op /\ r.exc = "" /\ r.val = val
HasRaised(r, op, exc)   == r.op = op /\ r.exc = exc

-----------------------------------------------------------------------------
(* The server's side of a paginated query *)

\* `pages` gives the number of records of each page; the records of a
\* result are all distinct: record i of page k is <<k, i>>
PageTables == UNION {[1..n -> 0..MaxRecs] : n \in 1..MaxPages}

PageRecords(ps, k) == [i \in 1..ps[k] |-> <<k, i>>]

RECURSIVE ConcatFrom(_, _)
ConcatFrom(ps, k) ==
    IF k > Len(ps) THEN <<>> ELSE PageRecords(ps, k) \o ConcatFrom(ps, k + 1)

\* every record of the result, in server order
AllRecords(ps) == ConcatFrom(ps, 1)

\* the path of the query endpoint, Cursor._url; the continuation reference
\* of page k (k >= 2) is k itself, so that path k names page k
QueryUrl == 1

\* the decoded body of page k: totalSize is furnished with the first page,
\* nextRecordsUrl (None: the key is absent) with every page but the last
PageJson(ps, k) ==
    [records        |-> PageRecords(ps, k),
     totalSize      |-> IF k = 1 THEN Len(AllRecords(ps)) ELSE None,
     nextRecordsUrl |-> IF k < Len(ps) THEN k + 1 ELSE None]

GetRequest(path, withParams, status) ==
    [method |-> "GET", path |-> path, params |-> withParams, status |-> status]

-----------------------------------------------------------------------------
(* class Cursor *)

CursorInit == [next_url |-> None, results |-> NoneObj, len |-> None]

\* Cursor.first that never stores the continuation reference
FirstResult_DropsReference(c, status, json) ==
    IF IsError(status)
    THEN [cursor |-> c, ret |-> RaisedWith("first", "SFDCException",
                                      RestMessage(RestErrorJson))]
    ELSE [cursor |-> [next_url |-> c.next_url,
                      results  |-> json,
                      len      |-> json.totalSize],
          ret    |-> Returned("first", None)]

\* Cursor.first with the response (status, json) of its GET: the new cursor
\* and the outcome
FirstResult(c, status, json) ==
    IF IsError(status)
    THEN [cursor |-> c, ret |-> RaisedWith("first", "SFDCException",
                                      RestMessage(RestErrorJson))]
    ELSE [cursor |-> [next_url |-> IF json.nextRecordsUrl # None
                                   THEN json.nextRecordsUrl
                                   ELSE c.next_url,
                      results  |-> json,
                      len      |-> json.totalSize],
          ret    |-> Returned("first", None)]

\* Cursor.next that takes the total count from every page
NextResult_UpdatesLen(c, status, json) ==
    IF IsError(status)
    THEN [cursor |-> c, ret |-> RaisedWith("next", "SFDCException",
                                      RestMessage(RestErrorJson))]
    ELSE [cursor |-> [results  |-> json,
                      next_url |-> json.nextRecordsUrl,
                      len      |-> json.totalSize],
          ret    |-> Returned("next", TRUE)]

\* Cursor.next without the `else: self._next_url = None` branch
NextResult_KeepsReference(c, status, json) ==
    IF IsError(status)
    THEN [cursor |-> c, ret |-> RaisedWith("next", "SFDCException",
                                      RestMessage(RestErrorJson))]
    ELSE [cursor |-> [c EXCEPT !.results = json,
                               !.next_url = IF json.nextRecordsUrl # None
                                            THEN json.nextRecordsUrl
                                            ELSE c.next_url],
          ret    |-> Returned("next", TRUE)]

\* Cursor.next that gives up its continuation reference before it looks
\* at the status
NextResult_ClearsOnError(c, status, json) ==
    IF IsError(status)
    THEN [cursor |-> [c EXCEPT !.next_url = None],
          ret |-> RaisedWith("next", "SFDCException",
                                      RestMessage(RestErrorJson))]
    ELSE [cursor |-> [c EXCEPT !.results = json,
                               !.next_url = json.nextRecordsUrl],
          ret    |-> Returned("next", TRUE)]

\* Cursor.next past its early return, with the response of its GET
NextResult(c, status, json) ==
    IF IsError(status)
    THEN [cursor |-> c, ret |-> RaisedWith("next", "SFDCException",
                                      RestMessage(RestErrorJson))]
    ELSE [cursor |-> [c EXCEPT !.results = json,
                               !.next_url = json.nextRecordsUrl],
          ret    |-> Returned("next", TRUE)]

\* `if self._next_url is None: return False`
NextReturnsEarly(c) == c.next_url = None

\* `if self.results is None: self.first()` of __len__ and iterator
NeedsFirst(c) == c.results = NoneObj

\* no generator yet; once made, `base` is the number of requests issued
\* before it and `fresh` whether the cursor was as constructed
GenInit == [pc |-> "none", idx |-> 0, base |-> 0, fresh |-> FALSE]

NoUserCallsWhileIterating == gen.pc = "none"

CursorUnchanged == UNCHANGED <<pages, sfdc, job, frames>>

\* cursor.first()
CursorFirst ==
    /\ NoUserCallsWhileIterating
    /\ Len(log) < MaxGets
    /\ \E status \in StatusCodes :
         LET r == FirstResult(cursor, status, PageJson(pages, QueryUrl)) IN
         /\ log' = Append(log, GetRequest(QueryUrl, TRUE, status))
         /\ cursor' = r.cursor
         /\ ret' = r.ret
    /\ UNCHANGED <<gen, yielded>>
    /\ CursorUnchanged

\* cursor.next()
CursorNext ==
    /\ NoUserCallsWhileIterating
    /\ IF NextReturnsEarly(cursor)
       THEN /\ ret' = Returned("next", FALSE)
            /\ UNCHANGED <<cursor, log>>
       ELSE /\ Len(log) < MaxGets
            /\ \E status \in StatusCodes :
                 LET r == NextResult(cursor, status,
                                     PageJson(pages, cursor.next_url)) IN
                 /\ log' = Append(log, GetRequest(cursor.next_url, FALSE, status))
                 /\ cursor' = r.cursor
                 /\ ret' = r.ret
    /\ UNCHANGED <<gen, yielded>>
    /\ CursorUnchanged

\* len(cursor)
CursorLen ==
    /\ NoUserCallsWhileIterating
    /\ IF NeedsFirst(cursor)
       THEN /\ Len(log) < MaxGets
            /\ \E status \in StatusCodes :
                 LET r == FirstResult(cursor, status, PageJson(pages, QueryUrl)) IN
                 /\ log' = Append(log, GetRequest(QueryUrl, TRUE, status))
                 /\ cursor' = r.cursor
                 /\ ret' = IF r.ret.exc # ""
                           THEN RaisedWith("len", r.ret.exc, r.ret.msg)
                           ELSE Returned("len", r.cursor.len)
       ELSE /\ ret' = Returned("len", cursor.len)
            /\ UNCHANGED <<cursor, log>>
    /\ UNCHANGED <<gen, yielded>>
    /\ CursorUnchanged

-----------------------------------------------------------------------------
(* Cursor.iterator: the generator, one action per stretch of its body.     *)
(* gen.pc is the line the generator is at:                                 *)
(*   "none"   no generator has been made                                   *)
(*   "start"  made, not yet resumed (line 65 is next)                      *)
(*   "for"    in a `for record in self.results['records']` loop, at idx    *)
(*   "while"  at `while self.next()` (line 70)                             *)
(* and, once it has ended, the exception its consumer sees.  While the     *)
(* generator is live its consumer makes no other call on the cursor.       *)

GenEnded == gen.pc \in {"StopIteration", "RuntimeError", "SFDCException"}

\* `raise StopIteration` in a generator body: the consumer sees the end of
\* the iteration in Python up to 3.6, and RuntimeError from Python 3.7 on
\* (PEP 479); the repository does not pin the interpreter
RaiseStopIteration == {"StopIteration", "RuntimeError"}

\* cursor.iterator: the property makes a generator; nothing runs yet
Iterator ==
    /\ gen.pc = "none"
    /\ gen' = [pc |-> "start", idx |-> 0, base |-> Len(log),
                fresh |-> cursor = CursorInit]
    /\ yielded' = <<>>
    /\ UNCHANGED <<cursor, log, ret>>
    /\ CursorUnchanged

\* lines 65-66
IterFirst ==
    /\ gen.pc = "start"
    /\ IF NeedsFirst(cursor)
       THEN /\ Len(log) < MaxGets
            /\ \E status \in StatusCodes :
                 LET r == FirstResult(cursor, status, PageJson(pages, QueryUrl)) IN
                 /\ log' = Append(log, GetRequest(QueryUrl, TRUE, status))
                 /\ cursor' = r.cursor
                 /\ gen' = IF r.ret.exc # ""
                           THEN [gen EXCEPT !.pc = r.ret.exc]
                           ELSE [gen EXCEPT !.pc = "for", !.idx = 1]
                 /\ ret' = IF r.ret.exc # ""
                           THEN RaisedWith("iterator", r.ret.exc, r.ret.msg)
                           ELSE ret
       ELSE /\ gen' = [gen EXCEPT !.pc = "for", !.idx = 1]
            /\ UNCHANGED <<cursor, log, ret>>
    /\ UNCHANGED yielded
    /\ CursorUnchanged

\* lines 67-68 and 71-72: yield the next record of the stored page
IterYield ==
    /\ gen.pc = "for"
    /\ gen.idx <= Len(cursor.results.records)
    /\ yielded' = Append(yielded, cursor.results.records[gen.idx])
    /\ gen' = [gen EXCEPT !.idx = gen.idx + 1]
    /\ ret' = Returned("iterator", cursor.results.records[gen.idx])
    /\ UNCHANGED <<cursor, log>>
    /\ CursorUnchanged

\* the for loop is over: on to `while self.next()`
IterForEnd ==
    /\ gen.pc = "for"
    /\ gen.idx > Len(cursor.results.records)
    /\ gen' = [gen EXCEPT !.pc = "while"]
    /\ UNCHANGED <<cursor, log, ret, yielded>>
    /\ CursorUnchanged

\* line 70, and line 74 when next() returns False
IterWhile ==
    /\ gen.pc = "while"
    /\ IF NextReturnsEarly(cursor)
       THEN /\ \E e \in RaiseStopIteration :
                 /\ gen' = [gen EXCEPT !.pc = e]
                 /\ ret' = Raised("iterator", e)
            /\ UNCHANGED <<cursor, log>>
       ELSE /\ Len(log) < MaxGets
            /\ \E status \in StatusCodes :
                 LET r == NextResult(cursor, status,
                                     PageJson(pages, cursor.next_url)) IN
                 /\ log' = Append(log, GetRequest(cursor.next_url, FALSE, status))
                 /\ cursor' = r.cursor
                 /\ gen' = IF r.ret.exc # ""
                           THEN [gen EXCEPT !.pc = r.ret.exc]
                           ELSE [gen EXCEPT !.pc = "for", !.idx = 1]
                 /\ ret' = IF r.ret.exc # ""
                           THEN RaisedWith("iterator", r.ret.exc, r.ret.msg)
                           ELSE ret
    /\ UNCHANGED yielded
    /\ CursorUnchanged

-----------------------------------------------------------------------------
(* The cursor on its own, against a server holding any page table *)

NoCall == [op |-> "", arg |-> NoneStr, exc |-> "", msg |-> "", val |-> None]

SFDCInit == [block_sfdc_writes |-> FALSE, instance_url |-> NoneStr,
             access_token |-> NoneStr]

InitCursor ==
    /\ pages \in PageTables
    /\ cursor = CursorInit
    /\ gen = GenInit
    /\ yielded = <<>>
    /\ sfdc = SFDCInit
    /\ job = NoneObj
    /\ log = <<>>
    /\ ret = NoCall
    /\ frames = NoFrames

NextCursor ==
    \/ CursorFirst
    \/ CursorNext
    \/ CursorLen
    \/ Iterator
    \/ IterFirst
    \/ IterYield
    \/ IterForEnd
    \/ IterWhile

SpecCursor == InitCursor /\ [][NextCursor]_vars

\* a server that answers each fetch as it likes: a page with or without a
\* continuation reference, whatever it answered before
FreePages ==
    {[records        |-> <<>>,
      totalSize      |-> 0,
      nextRecordsUrl |-> u] : u \in {None} \cup 2..MaxPages}

\* cursor.first() against that server
FreeFirst ==
    /\ Len(log) < MaxGets
    /\ \E status \in StatusCodes, json \in FreePages :
         LET r == FirstResult(cursor, status, json) IN
         /\ log' = Append(log, GetRequest(QueryUrl, TRUE, status))
         /\ cursor' = r.cursor
         /\ ret' = r.ret
    /\ UNCHANGED <<gen, yielded>>
    /\ CursorUnchanged

\* cursor.next() against that server
FreeNext ==
    /\ IF NextReturnsEarly(cursor)
       THEN /\ ret' = Returned("next", FALSE)
            /\ UNCHANGED <<cursor, log>>
       ELSE /\ Len(log) < MaxGets
            /\ \E status \in StatusCodes, json \in FreePages :
                 LET r == NextResult(cursor, status, json) IN
                 /\ log' = Append(log, GetRequest(cursor.next_url, FALSE, status))
                 /\ cursor' = r.cursor
                 /\ ret' = r.ret
    /\ UNCHANGED <<gen, yielded>>
    /\ CursorUnchanged

InitFree ==
    /\ pages = <<0>>
    /\ cursor = CursorInit
    /\ gen = GenInit
    /\ yielded = <<>>
    /\ sfdc = SFDCInit
    /\ job = NoneObj
    /\ log = <<>>
    /\ ret = NoCall
    /\ frames = NoFrames

NextFree ==
    \/ FreeFirst
    \/ FreeNext

SpecFree == InitFree /\ [][NextFree]_vars

-----------------------------------------------------------------------------
(* Requests other than the cursor's.  `family` is "login" (the login       *)
(* endpoint), "rest" (instance_url + a relative path) or "async" (the bulk *)
(* API: jobId None is the job-collection URL .../job, otherwise the        *)
(* single-job URL .../job/<jobId>, with /batch appended when batch).       *)
(* `auth` is the token sent, `status` the status of the response and       *)
(* `reply` its decoded body when the code reads one (NoneObj otherwise);   *)
(* status None: the library refused the URL ("None/services/..." has no    *)
(* scheme) and raised MissingSchema without sending anything.              *)

Request(method, family, instance, jobId, batch, payload, auth, status, reply) ==
    [method |-> method, family |-> family, instance |-> instance,
     jobId |-> jobId, batch |-> batch, payload |-> payload, auth |-> auth,
     status |-> status, reply |-> reply]

\* the status is one of a response, and not an error
IsSuccess(status) == status # None /\ ~IsError(status)

\* what a call to requests.<verb> can come to, by the instance in its URL
Outcomes(instance) == IF instance = NoneStr THEN {None} ELSE StatusCodes

InstanceUrl == "https://instance"
Tokens == {"token1", "token2"}
JobIds == {1, 2}

-----------------------------------------------------------------------------
(* class BulkJob *)

Operations == {"delete", "insert", "query", "upsert", "update", "hardDelete"}
ContentTypes == {"CSV"}
Object == "Account"

\* BulkJob.__init__
BulkJobInit(operation, object_for_job, content_type, instance_url, access_token) ==
    [instance_url |-> instance_url, access_token |-> access_token,
     object |-> object_for_job, operation |-> operation,
     content_type |-> content_type, response |-> NoneObj]

\* the payload create() builds
CreatePayload(j) ==
    [operation |-> j.operation, object |-> j.object,
     contentType |-> j.content_type]

StatePayload(state) == [state |-> state]

\* the body of a successful answer of the bulk API: the job's description
JobJson(id, state) == [id |-> id, state |-> state]

\* a dispatch that always posts to the collection URL
DispatchJobId_Collection(j) == None

\* the job id _dispatch_command puts in its URL: none (the collection URL)
\* while no response is stored
DispatchJobId(j) == IF j.response = NoneObj THEN None ELSE j.response.id

\* BulkJob._dispatch_command: the request it makes and, for the response
\* (status, json), what it raises or returns
DispatchCommand(j, payload, status, json) ==
    [request |-> Request("POST", "async", j.instance_url, DispatchJobId(j),
                         FALSE, payload, j.access_token, status,
                         IF IsSuccess(status) THEN json ELSE NoneObj),
     exc     |-> IF status = None THEN "MissingSchema"
                 ELSE IF IsError(status) THEN "SFDCException" ELSE "",
     msg     |-> IF status # None /\ IsError(status)
                 THEN BulkMessage(BulkErrorJson) ELSE "",
     json    |-> json]

\* BulkJob.create that stores the body of whatever response came
CreateResult_StoresAnyResponse(j, status, json) ==
    LET r == DispatchCommand(j, CreatePayload(j), status, json) IN
    [request |-> r.request,
     exc     |-> r.exc,
     msg     |-> r.msg,
     job     |-> [j EXCEPT !.response = r.json]]

\* BulkJob.create: the job after the command
CreateResult(j, status, json) ==
    LET r == DispatchCommand(j, CreatePayload(j), status, json) IN
    [request |-> r.request,
     exc     |-> r.exc,
     msg     |-> r.msg,
     job     |-> IF r.exc = "" THEN [j EXCEPT !.response = r.json] ELSE j]

\* the server's answer to a state command: the job named in the URL, or
\* any job when the URL names none
StateAnswers(j, state) ==
    IF DispatchJobId(j) = None
    THEN {JobJson(id, state) : id \in JobIds}
    ELSE {JobJson(DispatchJobId(j), state)}

JobUnchanged == UNCHANGED <<pages, cursor, gen, yielded, sfdc, frames>>

MaxPosts == 4       \* the job specification stops after MaxPosts requests

\* job.create()
JobCreate ==
    /\ job # NoneObj
    /\ Len(log) < MaxPosts
    /\ \E status \in Outcomes(job.instance_url), id \in JobIds :
         LET r == CreateResult(job, status, JobJson(id, "Open")) IN
         /\ log' = Append(log, r.request)
         /\ job' = r.job
         /\ ret' = IF r.exc # "" THEN RaisedWith("create", r.exc, r.msg)
                   ELSE Returned("create", None)
    /\ JobUnchanged

\* job.add_batch(content)
JobAddBatch ==
    /\ job # NoneObj
    /\ IF job.response = NoneObj
       THEN \* self._response['id'] on None
            /\ ret' = Raised("add_batch", "TypeError")
            /\ UNCHANGED log
       ELSE /\ Len(log) < MaxPosts
            /\ \E status \in Outcomes(job.instance_url) :
                 /\ log' = Append(log,
                        Request("POST", "async", job.instance_url,
                                job.response.id, TRUE, [content |-> "rows"],
                                job.access_token, status, NoneObj))
                 /\ ret' = IF status = None
                           THEN Raised("add_batch", "MissingSchema")
                           ELSE IF IsError(status)
                           THEN RaisedWith("add_batch", "Exception",
                                           BatchErrorText)
                           ELSE Returned("add_batch", [state |-> "Queued"])
    /\ UNCHANGED job
    /\ JobUnchanged

\* abort() and close(): one command, the local job left as it is
StateCommand(op, state) ==
    /\ Len(log) < MaxPosts
    /\ \E status \in Outcomes(job.instance_url), json \in StateAnswers(job, state) :
         LET r == DispatchCommand(job, StatePayload(state), status, json) IN
         /\ log' = Append(log, r.request)
         /\ ret' = IF r.exc # "" THEN RaisedWith(op, r.exc, r.msg)
                   ELSE Returned(op, r.json)
    /\ UNCHANGED job
    /\ JobUnchanged

\* job.abort()
JobAbort ==
    /\ job # NoneObj
    /\ StateCommand("abort", "Aborted")

\* job.close()
JobClose ==
    /\ job # NoneObj
    /\ StateCommand("close", "Closed")

-----------------------------------------------------------------------------
(* A BulkJob driven directly: any job the constructor can make for a       *)
(* session that has logged in                                              *)

InitJob ==
    /\ pages = <<0>>
    /\ cursor = CursorInit
    /\ gen = GenInit
    /\ yielded = <<>>
    /\ sfdc = SFDCInit
    /\ \E op \in Operations, ct \in ContentTypes :
         job = BulkJobInit(op, Object, ct, InstanceUrl, "token1")
    /\ log = <<>>
    /\ ret = NoCall
    /\ frames = NoFrames

NextJob ==
    \/ JobCreate
    \/ JobAddBatch
    \/ JobAbort
    \/ JobClose

SpecJob == InitJob /\ [][NextJob]_vars

-----------------------------------------------------------------------------
(* class SFDC *)

LoginJson(token) == [instance_url |-> InstanceUrl, access_token |-> token]

LoginRequest(status) ==
    Request("POST", "login", "login_endpoint", None, FALSE,
            [grant_type |-> "password"], NoneStr, status, NoneObj)

\* SFDC.login with the response (status, json) of its POST
LoginResult(f, status, json) ==
    IF IsError(status)
    THEN [sfdc |-> f, exc |-> "SFDCException",
          msg  |-> LoginErrorJson.error_description]
    ELSE [sfdc |-> [f EXCEPT !.instance_url = json.instance_url,
                             !.access_token = json.access_token],
          exc  |-> "", msg |-> ""]

\* _authenticate without its test: a login exchange on every call
Authenticate_EveryCall(f, status, json) ==
    LET r == LoginResult(f, status, json) IN
    [sfdc |-> r.sfdc, exc |-> r.exc, msg |-> r.msg,
     requests |-> <<LoginRequest(status)>>]

\* SFDC._authenticate: login() when no token is held; the requests made,
\* the facade afterwards and the exception raised, if any
Authenticate(f, status, json) ==
    IF f.access_token = NoneStr
    THEN LET r == LoginResult(f, status, json) IN
         [sfdc |-> r.sfdc, exc |-> r.exc, msg |-> r.msg,
          requests |-> <<LoginRequest(status)>>]
    ELSE [sfdc |-> f, exc |-> "", msg |-> "", requests |-> <<>>]

\* a write guard that is tested only once a token is held
WriteBlocked_AfterLogin(f) ==
    f.block_sfdc_writes /\ f.access_token # NoneStr

\* `if self._block_sfdc_writes: raise SFDCWritesBlocked()`
WriteBlocked(f) == f.block_sfdc_writes

\* SFDC._response, and the same test inlined in patch and delete
ResponseExc(status) == IF IsError(status) THEN "SFDCException" ELSE ""
ResponseMsg(status) ==
    IF IsError(status) THEN RestMessage(RestErrorJson) ELSE ""

RestRequest(method, f, payload, status) ==
    Request(method, "rest", f.instance_url, None, FALSE, payload,
            f.access_token, status, NoneObj)

MaxRequests == 3    \* the facade specification stops after MaxRequests requests

FacadeUnchanged == UNCHANGED <<pages, cursor, gen, yielded, frames>>

JsonBody == [json |-> "body"]

\* what a verb returns for a response that is no error: r.json(), but
\* patch `if r.status_code != 204: return r.json()` (None otherwise) and
\* delete `return {'status_code': r.status_code}`
ReturnValue(op, status) ==
    CASE op = "patch"  -> IF status # 204 THEN JsonBody ELSE NoneObj
      [] op = "delete" -> [status_code |-> status]
      [] OTHER         -> JsonBody

\* the part the five verbs share: _authenticate(), then one request to
\* instance_url + url, then the result by the status
Send(op, method, payload, statuses) ==
    /\ Len(log) < MaxRequests
    /\ \E ls \in StatusCodes, t \in Tokens, status \in statuses :
         LET a == Authenticate(sfdc, ls, LoginJson(t)) IN
         /\ sfdc' = a.sfdc
         /\ IF a.exc # ""
            THEN /\ log' = log \o a.requests
                 /\ ret' = RaisedWith(op, a.exc, a.msg)
            ELSE /\ log' = log \o a.requests
                            \o <<RestRequest(method, a.sfdc, payload, status)>>
                 /\ ret' = IF ResponseExc(status) # ""
                           THEN RaisedWith(op, ResponseExc(status),
                                           ResponseMsg(status))
                           ELSE Returned(op, ReturnValue(op, status))

\* sfdc.login()
Login ==
    /\ Len(log) < MaxRequests
    /\ \E status \in StatusCodes, t \in Tokens :
         LET r == LoginResult(sfdc, status, LoginJson(t)) IN
         /\ log' = Append(log, LoginRequest(status))
         /\ sfdc' = r.sfdc
         /\ ret' = IF r.exc # "" THEN RaisedWith("login", r.exc, r.msg)
                   ELSE Returned("login", NoneObj)
    /\ UNCHANGED job
    /\ FacadeUnchanged

\* sfdc.get(url, payload)
Get ==
    /\ Send("get", "GET", [params |-> "payload"], StatusCodes)
    /\ UNCHANGED job
    /\ FacadeUnchanged

\* sfdc.post(url, payload)
Post ==
    /\ IF WriteBlocked(sfdc)
       THEN /\ ret' = Raised("post", "SFDCWritesBlocked")
            /\ UNCHANGED <<sfdc, log>>
       ELSE Send("post", "POST", [data |-> "payload"], StatusCodes)
    /\ UNCHANGED job
    /\ FacadeUnchanged

\* sfdc.patch(url, payload)
Patch ==
    /\ IF WriteBlocked(sfdc)
       THEN /\ ret' = Raised("patch", "SFDCWritesBlocked")
            /\ UNCHANGED <<sfdc, log>>
       ELSE Send("patch", "PATCH", [data |-> "payload"],
                 StatusCodes \cup {204})
    /\ UNCHANGED job
    /\ FacadeUnchanged

\* sfdc.put(url, payload)
Put ==
    /\ IF WriteBlocked(sfdc)
       THEN /\ ret' = Raised("put", "SFDCWritesBlocked")
            /\ UNCHANGED <<sfdc, log>>
       ELSE Send("put", "PUT", [data |-> "payload"], StatusCodes)
    /\ UNCHANGED job
    /\ FacadeUnchanged

\* sfdc.delete(url)
Delete ==
    /\ IF WriteBlocked(sfdc)
       THEN /\ ret' = Raised("delete", "SFDCWritesBlocked")
            /\ UNCHANGED <<sfdc, log>>
       ELSE Send("delete", "DELETE", NoneObj, StatusCodes)
    /\ UNCHANGED job
    /\ FacadeUnchanged

\* sfdc.get_cursor(url, payload), which query_cursor(query) calls with the
\* query URL: _authenticate(), a new Cursor, its first(); the requests
\* made, the facade afterwards, the exception raised if any, and the cursor
GetCursorResult(f, ls, login, status, ps) ==
    LET a == Authenticate(f, ls, login)
        r == FirstResult(CursorInit, status, PageJson(ps, QueryUrl))
    IN
    IF a.exc # ""
    THEN [sfdc |-> a.sfdc, requests |-> a.requests,
          exc |-> a.exc, msg |-> a.msg, cursor |-> CursorInit]
    ELSE [sfdc |-> a.sfdc,
          requests |-> a.requests
                        \o <<RestRequest("GET", a.sfdc,
                                         [url |-> QueryUrl, params |-> TRUE],
                                         status)>>,
          exc |-> r.ret.exc, msg |-> r.ret.msg, cursor |-> r.cursor]

\* cursor = sfdc.get_cursor(...): the cursor comes back to the caller only
\* when first() has returned
GetCursor ==
    /\ Len(log) < MaxRequests
    /\ \E ls \in StatusCodes, t \in Tokens, status \in StatusCodes :
         LET g == GetCursorResult(sfdc, ls, LoginJson(t), status, pages) IN
         /\ sfdc' = g.sfdc
         /\ log' = log \o g.requests
         /\ cursor' = IF g.exc # "" THEN cursor ELSE g.cursor
         /\ ret' = IF g.exc # ""
                   THEN RaisedWith("get_cursor", g.exc, g.msg)
                   ELSE Returned("get_cursor", g.cursor)
    /\ UNCHANGED <<job, pages, gen, yielded, frames>>

\* cursor = sfdc.query_cursor(query), called until it has returned a
\* cursor, before any generator is made
QueryCursor ==
    /\ cursor = CursorInit
    /\ gen.pc = "none"
    /\ GetCursor

\* query_all that keeps only the page fetched last
QueryAllResult_LastPage(result, records) == records

\* `result += cursor.results['records']`
QueryAllResult(result, records) == result \o records

\* sfdc.query_all(query), lines 280-281: query_cursor and the first page.
\* The call is made by thread 1 once the generator has ended; `base` is
\* the number of requests issued before the call
QueryAllCall ==
    /\ frames[1].pc = "idle"
    /\ GenEnded
    /\ \E ls \in StatusCodes, t \in Tokens, status \in StatusCodes :
         LET g == GetCursorResult(sfdc, ls, LoginJson(t), status, pages) IN
         /\ sfdc' = g.sfdc
         /\ log' = log \o g.requests
         /\ IF g.exc # ""
            THEN /\ frames' = [frames EXCEPT ![1] =
                       [pc |-> "raised", op |-> "query_all", base |-> Len(log)]]
                 /\ ret' = RaisedWith("query_all", g.exc, g.msg)
            ELSE /\ frames' = [frames EXCEPT ![1] =
                       [pc |-> "while", op |-> "query_all", base |-> Len(log),
                        cursor |-> g.cursor,
                        result |-> g.cursor.results.records]]
                 /\ UNCHANGED ret
    /\ UNCHANGED <<pages, cursor, gen, yielded, job>>

\* lines 282-285: one turn of `while cursor.next()`, or the return
QueryAllWhile ==
    /\ frames[1].pc = "while"
    /\ LET f == frames[1] IN
       IF NextReturnsEarly(f.cursor)
       THEN /\ frames' = [frames EXCEPT ![1].pc = "returned"]
            /\ ret' = Returned("query_all", f.result)
            /\ UNCHANGED log
       ELSE \E status \in StatusCodes :
              LET r == NextResult(f.cursor, status,
                                  PageJson(pages, f.cursor.next_url)) IN
              /\ log' = Append(log, GetRequest(f.cursor.next_url, FALSE, status))
              /\ IF r.ret.exc # ""
                 THEN /\ frames' = [frames EXCEPT ![1].pc = "raised"]
                      /\ ret' = RaisedWith("query_all", r.ret.exc, r.ret.msg)
                 ELSE /\ frames' = [frames EXCEPT
                            ![1].cursor = r.cursor,
                            ![1].result = QueryAllResult(f.result,
                                              r.cursor.results.records)]
                      /\ UNCHANGED ret
    /\ UNCHANGED <<pages, cursor, gen, yielded, job, sfdc>>

\* `safe_operations = [BulkJob.OPERATION_QUERY,]`
SafeOperations == {"query"}

\* a guard that forgets the safe operations
CreateJobBlocked_AnyOperation(f, operation) == f.block_sfdc_writes

\* `if self._block_sfdc_writes and operation not in safe_operations`
CreateJobBlocked(f, operation) ==
    f.block_sfdc_writes /\ operation \notin SafeOperations

\* sfdc.create_job(operation, object, content_type): the job comes back to
\* the caller only when create() has returned
CreateJob ==
    /\ \E operation \in Operations, content_type \in ContentTypes :
         IF CreateJobBlocked(sfdc, operation)
         THEN /\ ret' = WithArg(Raised("create_job", "SFDCWritesBlocked"),
                                    operation)
              /\ UNCHANGED <<job, log>>
         ELSE /\ Len(log) < MaxRequests
              /\ LET j == BulkJobInit(operation, Object, content_type,
                                      sfdc.instance_url, sfdc.access_token) IN
                 \E status \in Outcomes(j.instance_url), id \in JobIds :
                   LET r == CreateResult(j, status, JobJson(id, "Open")) IN
                   /\ log' = Append(log, r.request)
                   /\ job' = IF r.exc = "" THEN r.job ELSE job
                   /\ ret' = WithArg(IF r.exc # ""
                                      THEN RaisedWith("create_job", r.exc, r.msg)
                                      ELSE Returned("create_job", r.job),
                                      operation)
    /\ UNCHANGED sfdc
    /\ FacadeUnchanged

-----------------------------------------------------------------------------
(* The facade, with or without the write guard, and the job it hands out *)

Init ==
    /\ pages = <<0>>
    /\ cursor = CursorInit
    /\ gen = GenInit
    /\ yielded = <<>>
    /\ \E b \in BOOLEAN : sfdc = [SFDCInit EXCEPT !.block_sfdc_writes = b]
    /\ job = NoneObj
    /\ log = <<>>
    /\ ret = NoCall
    /\ frames = NoFrames

Next ==
    \/ Login
    \/ Get
    \/ Post
    \/ Patch
    \/ Put
    \/ Delete
    \/ GetCursor
    \/ CreateJob
    \/ JobCreate
    \/ JobAddBatch
    \/ JobAbort
    \/ JobClose

Spec == Init /\ [][Next]_vars

\* the facade used without any explicit login()
NextLazy ==
    \/ Get
    \/ Post
    \/ Patch
    \/ Put
    \/ Delete
    \/ GetCursor
    \/ CreateJob
    \/ JobCreate
    \/ JobAddBatch
    \/ JobAbort
    \/ JobClose

SpecLazy == Init /\ [][NextLazy]_vars

-----------------------------------------------------------------------------
(* Two threads on one facade, each making a first get(); a call is taken  *)
(* in the steps between which the other thread can run:                   *)
(*   "idle"   not yet called                                              *)
(*   "login"  in _authenticate, past `if not self._access_token` with the *)
(*            token found absent (line 198 is next)                       *)
(*   "send"   at line 200: the headers and the request                    *)
(* and "returned" or "raised" once the call is over.                      *)

\* a login() that looks at the token again before it posts
LoginSkips_WhenTokenHeld(f) == f.access_token # NoneStr

\* login() posts whatever the facade holds: it has no test of its own and
\* nothing makes _authenticate's test and the login one step
LoginSkips(f) == FALSE

\* get(): _authenticate's test of the token
RaceCall ==
    \E t \in Threads :
      /\ frames[t].pc = "idle"
      /\ frames' = [frames EXCEPT ![t] =
             [pc |-> IF sfdc.access_token = NoneStr THEN "login" ELSE "send",
              op |-> "get"]]
      /\ UNCHANGED <<pages, cursor, gen, yielded, sfdc, job, log, ret>>

\* login(), for the thread that found no token: the POST and, when it is
\* answered well, the two assignments
RaceLogin ==
    \E t \in Threads :
      /\ frames[t].pc = "login"
      /\ IF LoginSkips(sfdc)
         THEN /\ frames' = [frames EXCEPT ![t].pc = "send"]
              /\ UNCHANGED <<sfdc, log, ret>>
         ELSE \E status \in StatusCodes, tok \in Tokens :
                LET r == LoginResult(sfdc, status, LoginJson(tok)) IN
                /\ log' = Append(log, LoginRequest(status))
                /\ sfdc' = r.sfdc
                /\ frames' = [frames EXCEPT ![t].pc =
                                 IF r.exc # "" THEN "raised" ELSE "send"]
                /\ ret' = IF r.exc # ""
                          THEN RaisedWith("get", r.exc, r.msg) ELSE ret
      /\ UNCHANGED <<pages, cursor, gen, yielded, job>>

\* the headers from the token then held, the GET and its result
RaceSend ==
    \E t \in Threads :
      /\ frames[t].pc = "send"
      /\ \E status \in StatusCodes :
           /\ log' = Append(log, RestRequest("GET", sfdc, [q |-> "query"],
                                             status))
           /\ frames' = [frames EXCEPT ![t].pc =
                            IF ResponseExc(status) # ""
                            THEN "raised" ELSE "returned"]
           /\ ret' = IF ResponseExc(status) # ""
                     THEN RaisedWith("get", ResponseExc(status),
                                     ResponseMsg(status))
                     ELSE Returned("get", ReturnValue("get", status))
      /\ UNCHANGED <<pages, cursor, gen, yielded, sfdc, job>>

NextRace ==
    \/ RaceCall
    \/ RaceLogin
    \/ RaceSend

SpecRace == Init /\ [][NextRace]_vars

-----------------------------------------------------------------------------
(* Two threads on one cursor, calling next() once first() has returned;   *)
(* a call is taken in the steps between which the other thread can run:   *)
(*   "idle"   in no call                                                  *)
(*   "get"    past `if self._next_url is None` (line 43 is next)          *)
(*   "store"  the GET is answered (line 44 is next); the frame holds the  *)
(*            reference fetched and the answer                            *)

\* a next() that gives way when the other thread is fetching the reference
FetchSkips_WhenInFlight(c, fs, t) ==
    \E u \in Threads \ {t} : fs[u].pc = "store" /\ fs[u].url = c.next_url

\* next() fetches whatever the other thread is doing: nothing makes its
\* test, its GET and its assignments one step
FetchSkips(c, fs, t) == FALSE

\* cursor.first(), by the program before its threads use the cursor
SharedFirst ==
    /\ NeedsFirst(cursor)
    /\ \A t \in Threads : frames[t].pc = "idle"
    /\ CursorFirst

\* next(), line 41
SharedNextCall ==
    \E t \in Threads :
      /\ frames[t].pc = "idle"
      /\ ~NeedsFirst(cursor)
      /\ IF NextReturnsEarly(cursor)
         THEN /\ ret' = Returned("next", FALSE)
              /\ UNCHANGED frames
         ELSE /\ frames' = [frames EXCEPT ![t] = [pc |-> "get", op |-> "next"]]
              /\ UNCHANGED ret
      /\ UNCHANGED <<pages, cursor, gen, yielded, sfdc, job, log>>

\* line 43: the reference is read again for the URL; by now it can be
\* None, and `self._instance_url + None` is a TypeError
SharedNextGet ==
    \E t \in Threads :
      /\ frames[t].pc = "get"
      /\ IF FetchSkips(cursor, frames, t)
         THEN /\ frames' = [frames EXCEPT ![t] = NoFrame]
              /\ ret' = Returned("next", FALSE)
              /\ UNCHANGED log
         ELSE IF cursor.next_url = None
         THEN /\ frames' = [frames EXCEPT ![t] = NoFrame]
              /\ ret' = Raised("next", "TypeError")
              /\ UNCHANGED log
         ELSE /\ Len(log) < MaxGets
              /\ \E status \in StatusCodes :
                   /\ log' = Append(log, GetRequest(cursor.next_url, FALSE,
                                                    status))
                   /\ frames' = [frames EXCEPT ![t] =
                          [pc |-> "store", op |-> "next",
                           url |-> cursor.next_url, status |-> status,
                           json |-> PageJson(pages, cursor.next_url)]]
              /\ UNCHANGED ret
      /\ UNCHANGED <<pages, cursor, gen, yielded, sfdc, job>>

\* lines 44-53 with the answer
SharedNextStore ==
    \E t \in Threads :
      /\ frames[t].pc = "store"
      /\ LET r == NextResult(cursor, frames[t].status, frames[t].json) IN
         /\ cursor' = r.cursor
         /\ ret' = r.ret
      /\ frames' = [frames EXCEPT ![t] = NoFrame]
      /\ UNCHANGED <<pages, gen, yielded, sfdc, job, log>>

NextShared ==
    \/ SharedFirst
    \/ SharedNextCall
    \/ SharedNextGet
    \/ SharedNextStore

SpecShared == InitCursor /\ [][NextShared]_vars

-----------------------------------------------------------------------------
(* Two threads, each with an instance of its own (two cursors, or two     *)
(* jobs) built from one logged-in facade.  A thread's frame holds its     *)
(* instance and what the thread has seen: the calls it made with the      *)
(* server's answers, their outcomes and its requests.                     *)

MaxCalls == 2       \* each thread makes up to MaxCalls calls

\* one call on an instance with the server's answer: the instance
\* afterwards, the outcome and the requests made
InstanceCall(obj, call) ==
    CASE call.op = "first" ->
           LET r == FirstResult(obj, call.status, call.json) IN
           [obj |-> r.cursor, ret |-> r.ret,
            requests |-> <<GetRequest(QueryUrl, TRUE, call.status)>>]
      [] call.op = "next" ->
           IF NextReturnsEarly(obj)
           THEN [obj |-> obj, ret |-> Returned("next", FALSE),
                 requests |-> <<>>]
           ELSE LET r == NextResult(obj, call.status, call.json) IN
                [obj |-> r.cursor, ret |-> r.ret,
                 requests |-> <<GetRequest(obj.next_url, FALSE, call.status)>>]
      [] call.op = "create" ->
           LET r == CreateResult(obj, call.status, call.json) IN
           [obj |-> r.job,
            ret |-> IF r.exc # "" THEN RaisedWith("create", r.exc, r.msg)
                    ELSE Returned("create", None),
            requests |-> <<r.request>>]
      [] call.op = "close" ->
           LET r == DispatchCommand(obj, StatePayload("Closed"), call.status,
                                    call.json) IN
           [obj |-> obj,
            ret |-> IF r.exc # "" THEN RaisedWith("close", r.exc, r.msg)
                    ELSE Returned("close", r.json),
            requests |-> <<r.request>>]

\* the calls thread t can make on instance obj, each with an answer the
\* server can give; the server names a new job after the thread
Calls(obj, op, t) ==
    CASE op = "first" ->
           {[op |-> op, status |-> s, json |-> PageJson(pages, QueryUrl)] :
              s \in StatusCodes}
      [] op = "next" ->
           IF NextReturnsEarly(obj)
           THEN {[op |-> op, status |-> None, json |-> NoneObj]}
           ELSE {[op |-> op, status |-> s,
                  json |-> PageJson(pages, obj.next_url)] : s \in StatusCodes}
      [] op = "create" ->
           {[op |-> op, status |-> s, json |-> JobJson(t, "Open")] :
              s \in Outcomes(obj.instance_url)}
      [] op = "close" ->
           {[op |-> op, status |-> s, json |-> j] :
              s \in Outcomes(obj.instance_url),
              j \in StateAnswers(obj, "Closed")}

\* two threads on the first thread's instance
Target_Shared(t) == 1

\* the instance a thread calls: its own
Target(t) == t

\* thread t calls op on its instance
ThreadCall(op, kind) ==
    \E t \in Threads :
      /\ frames[t].kind = kind
      /\ Len(frames[t].calls) < MaxCalls
      /\ \E call \in Calls(frames[Target(t)].obj, op, t) :
           LET r == InstanceCall(frames[Target(t)].obj, call) IN
           /\ frames' = [frames EXCEPT
                  ![Target(t)].obj = r.obj,
                  ![t].calls = Append(@, call),
                  ![t].rets = Append(@, r.ret),
                  ![t].requests = @ \o r.requests]
           /\ log' = log \o r.requests
           /\ ret' = r.ret
      /\ UNCHANGED <<pages, cursor, gen, yielded, sfdc, job>>

ThreadFirst  == /\ TRUE
                /\ ThreadCall("first", "cursor")
ThreadNext   == /\ TRUE
                /\ ThreadCall("next", "cursor")
ThreadCreate == /\ TRUE
                /\ ThreadCall("create", "job")
ThreadClose  == /\ TRUE
                /\ ThreadCall("close", "job")

\* an instance as constructed from the facade f
NewInstance(kind, f) ==
    IF kind = "cursor" THEN CursorInit
    ELSE BulkJobInit("insert", Object, "CSV", f.instance_url, f.access_token)

InitIndependent ==
    /\ pages = <<1, 1>>
    /\ cursor = CursorInit
    /\ gen = GenInit
    /\ yielded = <<>>
    /\ sfdc = [SFDCInit EXCEPT !.instance_url = InstanceUrl,
                               !.access_token = "token1"]
    /\ job = NoneObj
    /\ log = <<>>
    /\ ret = NoCall
    /\ \E kind \in {"cursor", "job"} :
         frames = [t \in Threads |->
                     [pc |-> "idle", kind |-> kind,
                      obj |-> NewInstance(kind, sfdc),
                      calls |-> <<>>, rets |-> <<>>, requests |-> <<>>]]

NextIndependent ==
    \/ ThreadFirst
    \/ ThreadNext
    \/ ThreadCreate
    \/ ThreadClose

SpecIndependent == InitIndependent /\ [][NextIndependent]_vars

\* a query consumed through the iterator of a cursor (constructed, or got
\* from query_cursor) and then asked again through query_all
InitQuery ==
    /\ pages \in PageTables
    /\ cursor = CursorInit
    /\ gen = GenInit
    /\ yielded = <<>>
    /\ sfdc = SFDCInit
    /\ job = NoneObj
    /\ log = <<>>
    /\ ret = NoCall
    /\ frames = NoFrames

NextQuery ==
    \/ QueryCursor
    \/ Iterator
    \/ IterFirst
    \/ IterYield
    \/ IterForEnd
    \/ IterWhile
    \/ QueryAllCall
    \/ QueryAllWhile

SpecQuery == InitQuery /\ [][NextQuery]_vars

\* the facade without the write guard, the job it hands out and the cursor
\* it hands out, over a query of two pages
InitErrors ==
    /\ pages = <<1, 1>>
    /\ cursor = CursorInit
    /\ gen = GenInit
    /\ yielded = <<>>
    /\ sfdc = SFDCInit
    /\ job = NoneObj
    /\ log = <<>>
    /\ ret = NoCall
    /\ frames = NoFrames

NextErrors ==
    \/ Get
    \/ Post
    \/ Patch
    \/ Put
    \/ Delete
    \/ GetCursor
    \/ CursorFirst
    \/ CursorNext
    \/ CreateJob
    \/ JobCreate
    \/ JobAddBatch
    \/ JobAbort
    \/ JobClose

SpecErrors == InitErrors /\ [][NextErrors]_vars

-----------------------------------------------------------------------------
(* Properties of the cursor (SpecCursor) *)

LastRequest(l) == l[Len(l)]

\* the requests issued since the generator was made
GenRequests == SubSeq(log, gen.base + 1, Len(log))

\* the generator ran to the end of its body
GenExhausted == gen.pc \in RaiseStopIteration

\* C1: fully consuming Cursor.iterator on a freshly constructed cursor over
\* an N-page result yields the concatenation of the pages' records in server
\* order and issues exactly N GETs: the first fetch (query URL, with the
\* query parameters), then one per continuation reference, each against
\* the reference the previous page returned.
C1_IteratorYieldsAllPages ==
    (GenExhausted /\ gen.fresh) =>
        /\ yielded = AllRecords(pages)
        /\ Len(GenRequests) = Len(pages)
        /\ GenRequests[1] = GetRequest(QueryUrl, TRUE, 200)
        /\ \A k \in 2..Len(pages) :
             GenRequests[k] =
                 GetRequest(PageJson(pages, k - 1).nextRecordsUrl, FALSE, 200)

C1_Witness ==
    /\ GenExhausted /\ gen.fresh
    /\ Len(pages) >= 3
    /\ \A k \in 1..Len(pages) : pages[k] >= 1
    /\ Len(yielded) >= 4

\* C2: __len__ on a cursor that has fetched no page issues exactly one
\* first-fetch and returns the first page's totalSize; on a cursor that has
\* fetched a page, whatever next() and __len__ calls followed, it returns
\* that same totalSize and issues no request.
C2_LenFetchesOnce ==
    [][CursorLen =>
         IF cursor.results = NoneObj
         THEN /\ Len(log') = Len(log) + 1
              /\ LastRequest(log').path = QueryUrl
              /\ LastRequest(log').params
              /\ ~IsError(LastRequest(log').status)
                   => HasReturned(ret', "len", PageJson(pages, QueryUrl).totalSize)
         ELSE /\ log' = log
              /\ cursor' = cursor
              /\ HasReturned(ret', "len", PageJson(pages, QueryUrl).totalSize)
      ]_vars

\* len() answered from the stored count after next() had both failed and
\* advanced the cursor past the first page
C2_Witness ==
    /\ ret.op = "len" /\ ret.exc = ""
    /\ cursor.results # NoneObj
    /\ cursor.results # PageJson(pages, QueryUrl)
    /\ \E i \in 1..Len(log) : log[i].path # QueryUrl /\ IsError(log[i].status)
    /\ Len(log) >= 3
    /\ Cardinality({i \in 1..Len(log) : log[i].path = QueryUrl}) = 1

\* the cases in which the cursor holds no continuation reference
HoldsNoReference ==
    \/ cursor.next_url = None
    \/ cursor = CursorInit
    \/ cursor.results # NoneObj /\ Len(pages) = 1
    \/ /\ HasReturned(ret, "next", TRUE)
       /\ cursor.results.nextRecordsUrl = None

\* C3: whenever the cursor holds no continuation reference (never primed,
\* a single-page result, or right after next() fetched a page that carried
\* none), next() returns False, issues no request and changes nothing.
C3_NextWithoutReferenceIsNoOp ==
    [][(CursorNext /\ HoldsNoReference) =>
         /\ HasReturned(ret', "next", FALSE)
         /\ log' = log
         /\ cursor' = cursor
      ]_vars

\* next() returned False on a cursor that had been advanced to the last
\* page of a multi-page result
C3_Witness ==
    /\ HasReturned(ret, "next", FALSE)
    /\ Len(pages) >= 2
    /\ cursor.results = PageJson(pages, Len(pages))
    /\ cursor.next_url = None
    /\ Len(log) = Len(pages)

\* C7: a page fetch answered with a status >= 400 raises SFDCException and
\* leaves the stored page, the continuation reference and the total count
\* as they were, so that the same call, repeated, targets the same URL.
C7_FailedFetchLeavesCursor ==
    [][(log' # log /\ IsError(LastRequest(log').status)) =>
         /\ cursor' = cursor
         /\ ret'.exc = "SFDCException"
         /\ LastRequest(log').path =
              (IF LastRequest(log').params THEN QueryUrl ELSE cursor'.next_url)
      ]_vars

\* a continuation fetch failed twice running against the same reference
C7_Witness ==
    /\ Len(log) >= 3
    /\ IsError(log[Len(log)].status)
    /\ IsError(log[Len(log) - 1].status)
    /\ log[Len(log)].path = log[Len(log) - 1].path
    /\ log[Len(log)].path # QueryUrl
    /\ HasRaised(ret, "next", "SFDCException")

-----------------------------------------------------------------------------
(* Properties of the facade's write guard (Spec) *)

WriteVerbs == {"post", "patch", "put", "delete"}

\* C4: on a write-guarded facade every post, patch, put and delete raises
\* SFDCWritesBlocked, issues no request (no login either) and leaves the
\* session as it was; get is never answered with SFDCWritesBlocked and
\* always reaches the network.
C4_GuardedWritesSendNothing ==
    /\ [][(sfdc.block_sfdc_writes /\ ret'.op \in WriteVerbs) =>
            /\ ret'.exc = "SFDCWritesBlocked"
            /\ log' = log
            /\ sfdc' = sfdc
         ]_vars
    /\ [][ret'.op = "get" =>
            /\ ret'.exc # "SFDCWritesBlocked"
            /\ Len(log') > Len(log)
         ]_vars

\* a guarded facade that has never logged in refused a write, and so holds
\* no token still
C4_Witness ==
    /\ sfdc.block_sfdc_writes
    /\ HasRaised(ret, "patch", "SFDCWritesBlocked")
    /\ sfdc.access_token = NoneStr
    /\ log = <<>>

\* the request that opens a job: a POST of the job's description to the
\* job-collection URL
IsJobCreation(rq, operation) ==
    /\ rq.method = "POST" /\ rq.family = "async"
    /\ rq.jobId = None /\ ~rq.batch
    /\ rq.payload = [operation |-> operation, object |-> Object,
                     contentType |-> rq.payload.contentType]

\* C5: on a write-guarded facade create_job("query", ...) goes on to the
\* job-creation request, and create_job with any other operation raises
\* SFDCWritesBlocked with no request made and no job handed out.
C5_GuardedCreateJob ==
    [][(sfdc.block_sfdc_writes /\ ret'.op = "create_job") =>
         IF ret'.arg = "query"
         THEN /\ ret'.exc # "SFDCWritesBlocked"
              /\ Len(log') = Len(log) + 1
              /\ IsJobCreation(LastRequest(log'), "query")
         ELSE /\ ret'.arg \in Operations
              /\ ret'.exc = "SFDCWritesBlocked"
              /\ log' = log
              /\ job' = job
      ]_vars

\* a guarded facade handed out a query job, then refused another operation
C5_Witness ==
    /\ sfdc.block_sfdc_writes
    /\ job # NoneObj
    /\ job.operation = "query"
    /\ ret.op = "create_job" /\ ret.arg = "hardDelete"
    /\ ret.exc = "SFDCWritesBlocked"

-----------------------------------------------------------------------------
(* Properties of the bulk job (SpecJob) *)

IsCreate(rq) == rq.family = "async" /\ ~rq.batch /\ rq.payload = CreatePayload(job)

\* the requests of l that are creations the server accepted
Creations(l) == {i \in 1..Len(l) : IsCreate(l[i]) /\ IsSuccess(l[i].status)}

Max(S) == CHOOSE x \in S : \A y \in S : y <= x

\* the identifier the server has assigned, by the requests l: that of the
\* last accepted creation, None when there is none
AssignedId(l) ==
    IF Creations(l) = {} THEN None ELSE l[Max(Creations(l))].reply.id

CommandPayload(op) ==
    CASE op = "create" -> CreatePayload(job)
      [] op = "close"  -> StatePayload("Closed")
      [] op = "abort"  -> StatePayload("Aborted")

\* C6: create(), close() and abort() each issue exactly one POST: create's
\* carries {operation, object, contentType}, close's {state: Closed},
\* abort's {state: Aborted}; it goes to the job-collection URL when no
\* identifier has been assigned and otherwise to the single-job URL of the
\* identifier the creation's response returned.  So a successful create()
\* followed by close() posts to the collection URL, then to .../job/<id>.
C6_CreateThenCloseUrls ==
    [][ret'.op \in {"create", "close", "abort"} =>
         /\ log' = Append(log, LastRequest(log'))
         /\ LastRequest(log').method = "POST"
         /\ LastRequest(log').family = "async"
         /\ ~LastRequest(log').batch
         /\ LastRequest(log').payload = CommandPayload(ret'.op)
         /\ LastRequest(log').jobId = AssignedId(log)
      ]_vars

\* create() then close(), both accepted: two POSTs, the second to the URL
\* of the identifier the first returned
C6_Witness ==
    /\ Len(log) = 2
    /\ IsCreate(log[1]) /\ IsSuccess(log[1].status) /\ log[1].jobId = None
    /\ log[1].reply.id = 2
    /\ log[2].payload = StatePayload("Closed") /\ log[2].jobId = 2
    /\ IsSuccess(log[2].status)
    /\ ret.op = "close" /\ ret.exc = ""

\* C8: a bulk-job command answered with a status >= 400 raises and leaves
\* the local job as it was: no identifier after a failed create() (the next
\* create() goes to the collection URL again), the same identifier and
\* state after a failed close(), abort() or add_batch().
C8_FailedCommandLeavesJob ==
    [][(log' # log /\ IsError(LastRequest(log').status)) =>
         /\ job' = job
         /\ ret'.exc # ""
         /\ (AssignedId(log) = None => job'.response = NoneObj)
      ]_vars

\* create() failed, and create() again went to the collection URL
C8_Witness ==
    /\ Len(log) = 3
    /\ IsCreate(log[1]) /\ IsError(log[1].status)
    /\ IsCreate(log[2]) /\ log[2].jobId = None /\ IsSuccess(log[2].status)
    /\ log[3].payload = StatePayload("Aborted") /\ IsError(log[3].status)
    /\ job.response = log[2].reply

\* C9, as claimed: add_batch(), abort() and close() on a job that was never
\* created send nothing and fail.  (close() and abort() post their state to
\* the job-collection URL.)
C9_CommandsRequireIdentifier ==
    [][(job.response = NoneObj /\ ret'.op \in {"add_batch", "abort", "close"}) =>
         /\ log' = log
         /\ ret'.exc # ""
      ]_vars

\* a state command the server accepted for this job
IsTerminal(rq) ==
    /\ rq.family = "async" /\ ~rq.batch /\ rq.jobId # None
    /\ rq.payload \in {StatePayload("Closed"), StatePayload("Aborted")}
    /\ IsSuccess(rq.status)

\* C10, as claimed: once close() or abort() has succeeded, no later
\* close(), abort() or add_batch() sends a request.  (The job keeps no
\* state of its own: each of them posts again.)
C10_ClosedAndAbortedAreTerminal ==
    [][((\E i \in 1..Len(log) : IsTerminal(log[i]))
          /\ ret'.op \in {"add_batch", "abort", "close"}) =>
         log' = log
      ]_vars

\* C11, as claimed: create() is valid only from Inert: on a job that holds
\* an identifier a further create() sends nothing and keeps the stored
\* response, and every creation payload sent goes to the job-collection
\* URL.  (create() has no guard: it posts the payload to .../job/<id> and
\* stores the answer.)
C11_CreateOnlyFromInert ==
    /\ [][(job.response # NoneObj /\ ret'.op = "create") =>
            /\ log' = log
            /\ job' = job
         ]_vars
    /\ [](\A i \in 1..Len(log) : IsCreate(log[i]) => log[i].jobId = None)

-----------------------------------------------------------------------------
(* Properties of the generator's end (SpecCursor) *)

\* C14, as claimed: once the last record has been yielded and next() has
\* returned False, the iteration ends normally: its consumer sees the end
\* of the iteration (StopIteration), not an error.  (Line 74 raises
\* StopIteration inside the generator, which Python 3.7 and later turn
\* into RuntimeError.)
C14_IterationEndsNormally ==
    GenExhausted => gen.pc = "StopIteration"

-----------------------------------------------------------------------------
(* Properties of the lazy login (Spec, SpecLazy) *)

\* the requests a step has added to the log
NewRequests == SubSeq(log', Len(log) + 1, Len(log'))

IsLogin(rq) == rq.family = "login"

\* the facade operations that send a request to the instance
InstanceOps == {"get", "post", "patch", "put", "delete", "get_cursor",
                "create_job"}

\* C12, as claimed: whichever instance operation is called while no token
\* is held (and is not refused by the write guard), a login exchange comes
\* first; and no request is made to the instance with the instance URL or
\* the token absent.  (create_job never calls _authenticate.)
C12_LoginBeforeFirstRequest ==
    /\ [][(sfdc.access_token = NoneStr /\ ret'.op \in InstanceOps
             /\ ret'.exc # "SFDCWritesBlocked") =>
            /\ NewRequests # <<>>
            /\ IsLogin(NewRequests[1])
         ]_vars
    /\ [](\A i \in 1..Len(log) :
            ~IsLogin(log[i]) =>
                log[i].instance # NoneStr /\ log[i].auth # NoneStr)

\* the operations that call _authenticate
AuthenticatingOps == {"get", "post", "patch", "put", "delete", "get_cursor"}

Logins(l) == {i \in 1..Len(l) : IsLogin(l[i])}

\* C13: with no explicit login(), at most one login exchange succeeds; once
\* a token is held no operation makes a login exchange and the instance URL
\* and the token never change; a failed login leaves both unset, and an
\* operation that authenticates while they are unset starts with a login
\* exchange again.
C13_AtMostOneLazyLogin ==
    /\ [](Cardinality({i \in Logins(log) : IsSuccess(log[i].status)}) <= 1)
    /\ [][sfdc.access_token # NoneStr =>
            /\ sfdc' = sfdc
            /\ Logins(NewRequests) = {}
         ]_vars
    /\ [][(\E i \in Logins(NewRequests) : IsError(NewRequests[i].status)) =>
            /\ sfdc'.access_token = NoneStr
            /\ sfdc'.instance_url = NoneStr
         ]_vars
    /\ [][(sfdc.access_token = NoneStr /\ ret'.op \in AuthenticatingOps
             /\ ret'.exc # "SFDCWritesBlocked") =>
            /\ NewRequests # <<>>
            /\ IsLogin(NewRequests[1])
         ]_vars

\* a login failed, the next operation logged in again and sent its request
\* with the token it then held
C13_Witness ==
    /\ Len(log) = 3
    /\ IsLogin(log[1]) /\ IsError(log[1].status)
    /\ IsLogin(log[2]) /\ IsSuccess(log[2].status)
    /\ log[3].family = "rest" /\ log[3].auth = sfdc.access_token
    /\ sfdc.access_token # NoneStr

-----------------------------------------------------------------------------
(* Properties of the error paths (SpecErrors) *)

\* C15: a step whose last response has a status >= 400 ends in an error,
\* never in a return value, and the error follows the endpoint: SFDCException
\* with element 0's message for the REST calls and the cursor's first/next,
\* SFDCException with exceptionCode ' : ' exceptionMessage for the job's
\* create/close/abort, a plain Exception with the raw body for add_batch.
C15_ErrorShapeByEndpoint ==
    [][(NewRequests # <<>> /\ IsError(LastRequest(log').status)) =>
         /\ ret'.exc # ""
         /\ IF ret'.op \in {"first", "next"}
            THEN /\ ret'.exc = "SFDCException"
                 /\ ret'.msg = RestErrorJson[1].message
            ELSE CASE LastRequest(log').family = "rest" ->
                        /\ ret'.exc = "SFDCException"
                        /\ ret'.msg = RestErrorJson[1].message
                   [] LastRequest(log').family = "login" ->
                        ret'.exc = "SFDCException"
                   [] LastRequest(log').family = "async"
                        /\ ~LastRequest(log').batch ->
                        /\ ret'.exc = "SFDCException"
                        /\ ret'.msg = "InvalidJob : No such job"
                   [] LastRequest(log').family = "async"
                        /\ LastRequest(log').batch ->
                        /\ ret'.exc = "Exception"
                        /\ ret'.msg = BatchErrorText
      ]_vars

\* a job command has just been refused with the job endpoints' error
C15_Witness ==
    /\ log # <<>>
    /\ HasRaised(ret, "close", "SFDCException")
    /\ ret.msg = "InvalidJob : No such job"
    /\ IsError(LastRequest(log).status)

-----------------------------------------------------------------------------
(* Properties of the cursor against a free server (SpecFree) *)

\* C19, as claimed: when every fetch so far has succeeded, the cursor holds
\* a continuation reference exactly when the page fetched last carried one,
\* and it is that page's reference.  (first() has no else branch: a page
\* without a reference leaves the reference of an earlier page in place.)
C19_ReferenceFollowsLastPage ==
    ((\A i \in 1..Len(log) : log[i].status = 200) /\ cursor.results # NoneObj)
        => cursor.next_url = cursor.results.nextRecordsUrl

-----------------------------------------------------------------------------
(* Properties of query_all (SpecQuery) *)

\* a fetch as the server sees it: the path and whether the query
\* parameters go with it
Fetch(rq) ==
    IF "path" \in DOMAIN rq THEN <<rq.path, rq.params, rq.status>>
    ELSE <<rq.payload.url, rq.payload.params, rq.status>>

IsGet(rq) == rq.method = "GET"

Fetches(l) == LET gets == SelectSeq(l, IsGet) IN
              [i \in 1..Len(gets) |-> Fetch(gets[i])]

\* the GETs made for the cursor the generator ran on (query_cursor's, when
\* it made the cursor, and the generator's own), and those of query_all
CursorFetches ==
    Fetches((IF gen.fresh THEN <<>> ELSE <<log[gen.base]>>)
            \o SubSeq(log, gen.base + 1, frames[1].base))
QueryAllFetches == Fetches(SubSeq(log, frames[1].base + 1, Len(log)))

\* C20: when the iterator of a cursor for the query has been consumed to
\* the end and query_all has returned, query_all's list is the yielded
\* sequence, the concatenation of the pages' records in order, and both made
\* the same GETs in the same order, one per page.
C20_QueryAllIsFullIteration ==
    (GenExhausted /\ frames[1].pc = "returned") =>
        /\ frames[1].result = yielded
        /\ frames[1].result = AllRecords(pages)
        /\ HasReturned(ret, "query_all", yielded)
        /\ QueryAllFetches = CursorFetches
        /\ Len(QueryAllFetches) = Len(pages)

\* both ways over three pages with records on each
C20_Witness ==
    /\ GenExhausted /\ frames[1].pc = "returned"
    /\ Len(pages) >= 3
    /\ \A k \in 1..Len(pages) : pages[k] >= 1
    /\ Len(frames[1].result) >= 4

-----------------------------------------------------------------------------
(* Properties of threads sharing an object (SpecRace, SpecShared) *)

\* C17: a thread that found the token absent goes through with its login
\* exchange whatever the other thread has stored since; so when both
\* threads find it absent before either has logged in, both log in
\* (C17_Witness is that state).
C17_LoginNotSerialized ==
    [][\A t \in Threads :
         (frames[t].pc = "login" /\ frames'[t].pc # "login") =>
             /\ Len(log') = Len(log) + 1
             /\ IsLogin(LastRequest(log'))
      ]_vars

\* both threads' calls are over and the facade has logged in twice
C17_Witness ==
    /\ \A t \in Threads : frames[t].pc = "returned"
    /\ Cardinality({i \in Logins(log) : IsSuccess(log[i].status)}) = 2

\* the fetches answered well
Fetched(l) == {i \in 1..Len(l) : l[i].status = 200}

\* C18: a thread past next()'s test fetches the reference the cursor then
\* holds whatever the other thread is doing with it; so when both threads
\* pass the test before either has stored its page, both fetch the same
\* reference and a traversal makes more fetches than there are pages
\* (C18_Witness is that state).
C18_SharedCursorFetchesTwice ==
    [][\A t \in Threads :
         (frames[t].pc = "get" /\ frames'[t].pc # "get"
            /\ cursor.next_url # None) =>
             /\ Len(log') = Len(log) + 1
             /\ LastRequest(log').path = cursor.next_url
             /\ frames'[t].pc = "store"
      ]_vars

\* the traversal is over, one reference was fetched twice in a row, both
\* times well, and there were more fetches answered well than pages
C18_Witness ==
    /\ \A t \in Threads : frames[t].pc = "idle"
    /\ ~NeedsFirst(cursor) /\ cursor.next_url = None
    /\ \E i \in Fetched(log) :
         /\ i + 1 \in Fetched(log)
         /\ log[i].path # QueryUrl
         /\ log[i + 1].path = log[i].path
    /\ Cardinality(Fetched(log)) > Len(pages)

-----------------------------------------------------------------------------
(* Properties of threads with instances of their own (SpecIndependent) *)

\* the calls made alone, one after the other, on an instance as constructed
RECURSIVE Alone(_, _)
Alone(calls, obj) ==
    IF calls = <<>>
    THEN [obj |-> obj, requests |-> <<>>, rets |-> <<>>]
    ELSE LET p == Alone(SubSeq(calls, 1, Len(calls) - 1), obj)
             r == InstanceCall(p.obj, calls[Len(calls)])
         IN  [obj |-> r.obj, requests |-> p.requests \o r.requests,
              rets |-> Append(p.rets, r.ret)]

=============================================================================
